---- MODULE Spec2Model ----
(***************************************************************************)
(* TrackPro axis calibration: the Qt front-end (GUI/mainwindow.cpp), the   *)
(* Win32 front-end (src/main.cpp) and the registry store they share        *)
(* (src/RegistryHandler.cpp), as one state machine.  The variable app      *)
(* says which of the two executables is running; both keep the same kind   *)
(* of calibration state (three ranges, three raw samples) and call the     *)
(* same saveCalibrationToRegistry.                                         *)
(***************************************************************************)
EXTENDS Integers, Sequences, FiniteSets, TLC

VARIABLES
    app,                 \* "Qt" (GUI/mainwindow.cpp), "Win32" (src/main.cpp) or
                         \* "Test" (src/ReadingWriting.cpp, a caller of the store)
    running,             \* FALSE once an uncaught exception ended the process
    g_pDevice,           \* TRUE iff a DirectInput device was acquired at startup
    currentRaw,          \* currentXRaw, currentZRaw, currentRYRaw (by axis index)
    range,               \* xRange, zRange, ryRange (by axis index)
    m_calibrated,        \* Qt only: show 0..100 instead of raw
    calibrationHistory,  \* Qt only: vector of CalibrationBackup
    history,             \* Qt only: xHistory, zHistory, ryHistory (chart deques)
    calPercent,          \* the percentage last put on each calibrated bar
    registry,            \* Axes\<slot> keys and their "Calibration" value
    writes,              \* the saveCalibrationToRegistry calls of the last handler
    setFailures,         \* how many RegSetValueExW calls have failed so far
    ticks,               \* how many samples the Qt tick handler has taken so far
    commands,            \* how many Set Min / Set Max commands or direct store
                         \* calls have run so far
    lastOp,              \* the handler that ran last, and its axis
    messageBox,          \* the text of the message box the last handler showed
    beforeBackup,        \* ranges and history just before the last handler's backup
    readOut,             \* what the last readCalibrationData printed for axis 0, 1, 2
    sched,               \* Win32: the handlers the window thread is inside of, and
                         \* where UpdateThread is in its loop
    peer                 \* the Win32 executable run beside the Qt one on the same
                         \* samples and commands: its raw values, ranges and calls

vars == << app, running, g_pDevice, currentRaw, range, m_calibrated,
           calibrationHistory, history, calPercent, registry, writes,
           setFailures, ticks, commands, lastOp, messageBox,
           beforeBackup, readOut, sched, peer >>

----------------------------------------------------------------------------
(* Bounds of the model *)

\* how many entries of PollTable the device can report
NumPolls == 2
\* how many samples a run of the Qt front-end takes
MaxTicks == 1
\* how many Set Min / Set Max commands, or direct calls of the store, a run takes
MaxCommands == 2
\* how many backups a run of the full controller takes
MaxBackups == 1
\* how many RegSetValueExW calls may fail in a run
MaxSetFailures == 1
\* how many of the three axis keys (Z, X, RY in this order) may be missing
MaxMissingKeys == 1
\* how many tokens a direct call of the store passes
MaxTokens == 2
\* samples the chart is fed in the runs that fill it: two more than it holds
MaxBufTicks == 102
\* Set Max commands in the runs that fill the chart
MaxBufCommands == 1
\* samples taken in the runs that mix the two display modes
MaxMixTicks == 2
\* samples offered to the two front-ends run side by side
MaxPairTicks == 2

----------------------------------------------------------------------------
(* Program constants *)

RAW_MAX == 4095
JS_MAX == 65535
GRAPH_HISTORY == 100
HISTORY_CAPACITY == 10
NARROW_SPAN == 409

\* static_cast<LONG>(js.lX * (4095.0 / 65535.0)): truncation of the scaled value
ScaleRaw(l) == (l * RAW_MAX) \div JS_MAX

Axes == 0 .. 2
Slots == 0 .. 4

\* one tick's outcome of IDirectInputDevice8: the lX, lZ, lRy of DIJOYSTATE2
PollTable == << <<7042, 1601, 32776>>, <<60654, 3201, 65535>>,
                <<32776, 60654, 0>>, <<0, 7042, 1601>> >>
Polls == { PollTable[i] : i \in { j \in 1 .. Len(PollTable) : j <= NumPolls } }

\* RegOpenKeyExW fails: the axis key does not exist
NoKey == [key |-> FALSE, type |-> "", data |-> << >>]
\* the key exists and has no "Calibration" value
NoValue == [key |-> TRUE, type |-> "", data |-> << >>]

DefaultRange == [min |-> 0, max |-> RAW_MAX]
NoOp == [op |-> "none", axis |-> -1, ok |-> FALSE, arg |-> << >>]

----------------------------------------------------------------------------
(* Wide strings, as sequences of characters *)

Digits == << "0", "1", "2", "3", "4", "5", "6", "7", "8", "9" >>

RECURSIVE to_wstring(_)
\* std::to_wstring(long): decimal digits, a leading '-' for a negative value
to_wstring(n) ==
    IF n < 0 THEN << "-" >> \o to_wstring(-n)
    ELSE IF n < 10 THEN << Digits[n + 1] >>
    ELSE to_wstring(n \div 10) \o << Digits[(n % 10) + 1] >>

IsDigit(c) == \E d \in 1 .. 10 : Digits[d] = c
DigitValue(c) == (CHOOSE d \in 1 .. 10 : Digits[d] = c) - 1

RECURSIVE ParseDigits(_, _, _)
\* the digits of s from position i on, up to the first character that is none
ParseDigits(s, i, acc) ==
    IF i > Len(s) \/ ~IsDigit(s[i]) THEN acc
    ELSE ParseDigits(s, i + 1, acc * 10 + DigitValue(s[i]))

\* std::stoul: an optional sign, then digits; it throws std::invalid_argument
\* without a digit.  A negated value is kept as -magnitude: it stands for the
\* DWORD 2^32 - magnitude, beyond the integers of the model checker, and no
\* handler formats a negative bound (samples are scaled into 0..4095).
stoul(s) ==
    LET signed == Len(s) >= 1 /\ s[1] \in { "-", "+" }
        first == IF signed THEN 2 ELSE 1
        magnitude == ParseDigits(s, first, 0)
    IN  IF first > Len(s) \/ ~IsDigit(s[first])
        THEN [threw |-> TRUE, value |-> 0]
        ELSE [threw |-> FALSE,
              value |-> IF signed /\ s[1] = "-" THEN -magnitude ELSE magnitude]

\* token.find(prefix) == 0
StartsWith(token, prefix) ==
    Len(token) >= Len(prefix) /\ SubSeq(token, 1, Len(prefix)) = prefix

\* token.substr(k)
substr(token, k) == SubSeq(token, k + 1, Len(token))

RECURSIVE find(_, _, _)
\* calibrationData.find(c, pos), positions counted from 0; -1 is npos
find(s, c, pos) ==
    IF pos >= Len(s) THEN -1
    ELSE IF s[pos + 1] = c THEN pos
    ELSE find(s, c, pos + 1)

AxisLetters == << << "X" >>, << "Z" >>, << "R", "Y" >> >>
MinKey(axisIndex) == << "M", "i", "n" >> \o AxisLetters[axisIndex + 1] \o << "=" >>
MaxKey(axisIndex) == << "M", "a", "x" >> \o AxisLetters[axisIndex + 1] \o << "=" >>
MinDeadzoneKey(axisIndex) ==
    << "M", "i", "n", "D", "e", "a", "d", "z", "o", "n", "e" >>
        \o AxisLetters[axisIndex + 1] \o << "=" >>
MaxDeadzoneKey(axisIndex) ==
    << "M", "a", "x", "D", "e", "a", "d", "z", "o", "n", "e" >>
        \o AxisLetters[axisIndex + 1] \o << "=" >>
\* the offsets the code passes to substr for an axis' Min/Max and deadzone tokens
ValueOffset(axisIndex) == << 5, 5, 6 >>[axisIndex + 1]
DeadzoneOffset(axisIndex) == << 12, 12, 13 >>[axisIndex + 1]

----------------------------------------------------------------------------
(* The registry store: src/RegistryHandler.cpp *)

\* the axes are stored in contiguous slots 0, 1, 2
RegistryIndex_Contiguous(axisIndex) ==
    IF axisIndex \in { 1, 2 } THEN axisIndex ELSE 0

\* the switch that turns an axis index into the registry's axis slot
RegistryIndex(axisIndex) ==
    CASE axisIndex = 0 -> 0
      [] axisIndex = 1 -> 2
      [] axisIndex = 2 -> 4
      [] OTHER -> 0

\* one token of the string, applied to the values parsed so far
ApplyToken(acc, token, axisIndex) ==
    IF axisIndex \notin Axes THEN acc
    ELSE IF StartsWith(token, MinKey(axisIndex)) THEN
        LET v == stoul(substr(token, ValueOffset(axisIndex)))
        IN  IF v.threw THEN [acc EXCEPT !.threw = TRUE]
            ELSE [acc EXCEPT !.min = v.value]
    ELSE IF StartsWith(token, MaxKey(axisIndex)) THEN
        LET v == stoul(substr(token, ValueOffset(axisIndex)))
        IN  IF v.threw THEN [acc EXCEPT !.threw = TRUE]
            ELSE [acc EXCEPT !.max = v.value]
    ELSE IF StartsWith(token, MinDeadzoneKey(axisIndex)) THEN
        LET v == stoul(substr(token, DeadzoneOffset(axisIndex)))
        IN  IF v.threw THEN [acc EXCEPT !.threw = TRUE]
            ELSE [acc EXCEPT !.minDeadzone = v.value]
    ELSE IF StartsWith(token, MaxDeadzoneKey(axisIndex)) THEN
        LET v == stoul(substr(token, DeadzoneOffset(axisIndex)))
        IN  IF v.threw THEN [acc EXCEPT !.threw = TRUE]
            ELSE [acc EXCEPT !.maxDeadzone = v.value]
    ELSE acc

RECURSIVE ParseLoop(_, _, _, _)
\* the while loop over the ';'-terminated tokens of calibrationData
ParseLoop(calibrationData, pos, axisIndex, acc) ==
    LET next == find(calibrationData, ";", pos)
    IN  IF next = -1 \/ acc.threw THEN acc
        ELSE ParseLoop(calibrationData, next + 1, axisIndex,
                       ApplyToken(acc, SubSeq(calibrationData, pos + 1, next),
                                  axisIndex))

\* the values the store starts from before it reads any token
ParseDefaults ==
    [min |-> 0, max |-> RAW_MAX, minDeadzone |-> 0, maxDeadzone |-> 0,
     threw |-> FALSE]

\* the midpoint rounded up
MidOf_RoundedUp(min, max) == (min + max + 1) \div 2

\* DWORD mid = (min + max) / 2; the sum of two bounds below 2^31 does not wrap
MidOf(min, max) == (min + max) \div 2

\* AxisCalibration axisData = { min, mid, max, minDeadzone, maxDeadzone }
AxisData(p) ==
    [min |-> p.min, mid |-> MidOf(p.min, p.max), max |-> p.max,
     minDeadzone |-> p.minDeadzone, maxDeadzone |-> p.maxDeadzone]

\* the four bytes of a DWORD in memory, least significant first
DwordBytes(d) ==
    << d % 256, (d \div 256) % 256, (d \div 65536) % 256, (d \div 16777216) % 256 >>

\* the packed struct as RegSetValueExW gets it: REG_BINARY, sizeof(AxisCalibration)
Blob(axisData) ==
    [key |-> TRUE, type |-> "REG_BINARY",
     data |-> DwordBytes(axisData.min) \o DwordBytes(axisData.mid)
                \o DwordBytes(axisData.max) \o DwordBytes(axisData.minDeadzone)
                \o DwordBytes(axisData.maxDeadzone)]

\* a DWORD read back from four bytes of a value, from offset k on
DwordAt(data, k) ==
    data[k + 1] + 256 * data[k + 2] + 65536 * data[k + 3] + 16777216 * data[k + 4]

----------------------------------------------------------------------------
(* The strings the store is called with *)

\* the two bounds formatted in each other's place
CalibrationString_Swapped(axisIndex, r) ==
    MinKey(axisIndex) \o to_wstring(r.max) \o << ";" >>
        \o MaxKey(axisIndex) \o to_wstring(r.min) \o << ";" >>

\* "MinX=<min>;MaxX=<max>;" as the handlers build it
CalibrationString(axisIndex, r) ==
    MinKey(axisIndex) \o to_wstring(r.min) \o << ";" >>
        \o MaxKey(axisIndex) \o to_wstring(r.max) \o << ";" >>

\* L"MinX=440;MaxX=3790;MinY=0;MaxY=4096;Deadzone=0;" of testCalibrationHandling
testData ==
    << "M", "i", "n", "X", "=", "4", "4", "0", ";",
       "M", "a", "x", "X", "=", "3", "7", "9", "0", ";",
       "M", "i", "n", "Y", "=", "0", ";",
       "M", "a", "x", "Y", "=", "4", "0", "9", "6", ";",
       "D", "e", "a", "d", "z", "o", "n", "e", "=", "0", ";" >>

\* tokens a direct caller of the store may pass: a name and a value
TokenPool ==
    { [name |-> << "M", "i", "n", "X" >>, value |-> 440],
      [name |-> << "M", "a", "x", "X" >>, value |-> 3790],
      [name |-> << "M", "i", "n", "Z" >>, value |-> 100],
      [name |-> << "M", "a", "x", "R", "Y" >>, value |-> 2048],
      [name |-> << "M", "a", "x", "Y" >>, value |-> 4096],
      [name |-> << "D", "e", "a", "d", "z", "o", "n", "e" >>, value |-> 7],
      [name |-> << "M", "i", "n", "D", "e", "a", "d", "z", "o", "n", "e", "X" >>,
       value |-> 5] }

TokenLists ==
    UNION { [1 .. n -> TokenPool] : n \in { k \in 0 .. 8 : k <= MaxTokens } }

RECURSIVE Render(_)
\* the string of a token list: "<name>=<value>;" for each
Render(tokens) ==
    IF tokens = << >> THEN << >>
    ELSE Head(tokens).name \o << "=" >> \o to_wstring(Head(tokens).value)
            \o << ";" >> \o Render(Tail(tokens))

\* an axis index the switch has no case for stands for all of them
AxisIndexes == 0 .. 3

\* the values a bound of a range takes in the controller's runs
BoundValues ==
    { 0, RAW_MAX } \cup { ScaleRaw(js[i]) : js \in Polls, i \in 1 .. 3 }

KnownStrings ==
    { CalibrationString(a, [min |-> x, max |-> y]) :
        a \in Axes, x \in BoundValues, y \in BoundValues }
      \cup { Render(t) : t \in TokenLists } \cup { testData }

\* ParseLoop over every string the model passes, evaluated once
ParseMemo ==
    [d \in KnownStrings |->
        [a \in AxisIndexes |-> ParseLoop(d, 0, a, ParseDefaults)]]

\* the tokens of axis X read for an axis index the switch has no case for
ParseCalibration_AsX(calibrationData, axisIndex) ==
    ParseMemo[calibrationData][IF axisIndex \in Axes THEN axisIndex ELSE 0]

\* lines 57-96 of saveCalibrationToRegistry: the parsed min, max and deadzones
ParseCalibration(calibrationData, axisIndex) ==
    ParseMemo[calibrationData][axisIndex]

\* saveCalibrationToRegistry: the registry afterwards and a record of the call.
\* setOk is the outcome of RegSetValueExW, should the key open.
saveCalibrationToRegistry(reg, calibrationData, axisIndex, setOk) ==
    LET registryIndex == RegistryIndex(axisIndex)
        p == ParseCalibration(calibrationData, axisIndex)
        axisData == AxisData(p)
        opened == reg[registryIndex].key
        stored == opened /\ setOk
    IN  IF p.threw
        THEN [reg |-> reg, threw |-> TRUE,
              call |-> [axisIndex |-> axisIndex, slot |-> registryIndex,
                        threw |-> TRUE, axisData |-> axisData,
                        opened |-> FALSE, stored |-> FALSE,
                        refreshed |-> FALSE]]
        ELSE [reg |-> IF stored
                      THEN [reg EXCEPT ![registryIndex] = Blob(axisData)]
                      ELSE reg,
              threw |-> FALSE,
              call |-> [axisIndex |-> axisIndex, slot |-> registryIndex,
                        threw |-> FALSE, axisData |-> axisData,
                        opened |-> opened, stored |-> stored,
                        refreshed |-> TRUE]]

RECURSIVE SaveAll(_, _, _, _)
\* consecutive saveCalibrationToRegistry calls of one handler; an exception
\* leaves the rest uncalled
SaveAll(reg, calls, oks, log) ==
    IF calls = << >> THEN [reg |-> reg, log |-> log, threw |-> FALSE]
    ELSE LET s == saveCalibrationToRegistry(reg, Head(calls).data,
                                            Head(calls).axisIndex, Head(oks))
         IN  IF s.threw
             THEN [reg |-> s.reg, log |-> Append(log, s.call), threw |-> TRUE]
             ELSE SaveAll(s.reg, Tail(calls), Tail(oks), Append(log, s.call))

\* how many RegSetValueExW calls of a handler failed
FailedSets(log) ==
    Cardinality({ i \in 1 .. Len(log) : log[i].opened /\ ~log[i].stored })

\* sizeof(AxisCalibration): five packed DWORDs
RECORD_SIZE == 20

\* bytes an AxisCalibration on the stack may hold before anything is copied into it
JunkBytes == { 0, 7 }

\* nothing was printed for an axis
NoOutput ==
    [kind |-> "none",
     axisData |-> [min |-> 0, mid |-> 0, max |-> 0, minDeadzone |-> 0,
                   maxDeadzone |-> 0]]

\* basePath + std::to_wstring(axisIndex): the key readCalibrationData opens
ReadIndex(axisIndex) == axisIndex

\* one pass of the loop of readCalibrationData: RegOpenKeyExW with KEY_READ, then
\* RegQueryValueExW into an uninitialised AxisCalibration with dataSize 20; a
\* longer value fails with ERROR_MORE_DATA, a shorter one fills only its own
\* bytes, and the type the call reports is not looked at
ReadAxis(reg, axisIndex, junk) ==
    LET v == reg[ReadIndex(axisIndex)]
        buffer == [i \in 1 .. RECORD_SIZE |->
                      IF i <= Len(v.data) THEN v.data[i] ELSE junk]
    IN  IF ~v.key THEN NoOutput
        ELSE IF v.type = "" \/ Len(v.data) > RECORD_SIZE
        THEN [NoOutput EXCEPT !.kind = "failed"]
        ELSE [kind |-> "record",
              axisData |-> [min |-> DwordAt(buffer, 0), mid |-> DwordAt(buffer, 4),
                            max |-> DwordAt(buffer, 8),
                            minDeadzone |-> DwordAt(buffer, 12),
                            maxDeadzone |-> DwordAt(buffer, 16)]]

\* readCalibrationData: for (int axisIndex = 0; axisIndex < 3; axisIndex++)
ReadAll(reg, junk) == [a \in Axes |-> ReadAxis(reg, a, junk)]

NothingRead == [a \in Axes |-> NoOutput]

----------------------------------------------------------------------------
(* Pure parts of the tick and of the calibration history *)

\* C++ integer division: the quotient truncated toward zero
CDiv(a, b) ==
    IF b = 0 THEN 0
    ELSE IF (a >= 0) = (b > 0) THEN (IF a >= 0 THEN a ELSE -a) \div (IF b > 0 THEN b ELSE -b)
    ELSE -((IF a >= 0 THEN a ELSE -a) \div (IF b > 0 THEN b ELSE -b))

\* the percentage rounded to the nearest integer instead of truncated
CalPercent_Rounded(raw, r) ==
    IF raw <= r.min THEN 0
    ELSE IF raw >= r.max THEN 100
    ELSE CDiv((raw - r.min) * 200 + (r.max - r.min), 2 * (r.max - r.min))

\* the division without the test against max
CalDivision_Unguarded(raw, r) ==
    IF raw <= r.min THEN << >>
    ELSE << (raw - r.min) * 100, r.max - r.min >>

\* the dividend and divisor of the division the percentage makes, << >> when
\* one of the two comparisons that precede it holds and none is made
CalDivision(raw, r) ==
    IF raw <= r.min \/ raw >= r.max THEN << >>
    ELSE << (raw - r.min) * 100, r.max - r.min >>

\* the integer percentage of the calibrated bar (updateAxis, xCalPercent)
CalPercent(raw, r) ==
    IF raw <= r.min THEN 0
    ELSE IF raw >= r.max THEN 100
    ELSE CDiv(CalDivision(raw, r)[1], CalDivision(raw, r)[2])

\* the divisions of one tick, by axis
Divisions(raw, rg) == [a \in Axes |-> CalDivision(raw[a], rg[a])]

RECURSIVE Gcd(_, _)
Gcd(a, b) == IF b = 0 THEN a ELSE Gcd(b, a % b)

\* a chart value: the fraction num/den in lowest terms, den > 0
Fraction(n, d) ==
    LET g == Gcd(IF n >= 0 THEN n ELSE -n, d)
    IN  IF n = 0 THEN [num |-> 0, den |-> 1]
        ELSE [num |-> n \div g, den |-> d \div g]

\* clamp01((double(raw - min) / (max - min)) * 100.0): the exact quotient; a
\* zero span divides to +inf, -inf or NaN, which std::min and std::max clamp to
\* 100, 0 and 100
ScaledPercent(raw, r) ==
    LET n == raw - r.min
        d == r.max - r.min
    IN  IF d = 0 THEN (IF n < 0 THEN Fraction(0, 1) ELSE Fraction(100, 1))
        ELSE LET sn == IF d > 0 THEN n ELSE -n
                 sd == IF d > 0 THEN d ELSE -d
             IN  IF sn <= 0 THEN Fraction(0, 1)
                 ELSE IF sn >= sd THEN Fraction(100, 1)
                 ELSE Fraction(sn * 100, sd)

\* xForChart = (m_calibrated ? xScaled : currentXRaw)
ForChart(calibrated, raw, r) ==
    IF calibrated THEN ScaledPercent(raw, r) ELSE Fraction(raw, 1)

\* the deque without its pop_front
PushSample_Unbounded(h, v) == Append(h, v)

\* xHistory.push_back(v); if (size > GRAPH_HISTORY) pop_front()
PushSample(h, v) ==
    LET pushed == Append(h, v)
    IN  IF Len(pushed) > GRAPH_HISTORY THEN Tail(pushed) ELSE pushed

\* CalibrationBackup backup = { xRange, zRange, ryRange }
Snapshot(rg) == [x |-> rg[0], z |-> rg[1], ry |-> rg[2]]

\* the ranges a backup restores
Restored(b) == [a \in Axes |-> CASE a = 0 -> b.x [] a = 1 -> b.z [] OTHER -> b.ry]

\* a full history refuses the new backup instead of evicting the oldest
PushBackup_KeepOldest(hist, b) ==
    IF Len(hist) >= HISTORY_CAPACITY THEN hist ELSE Append(hist, b)

\* backupCurrentCalibration: push_back, then erase(begin()) beyond ten entries
PushBackup(hist, b) ==
    LET pushed == Append(hist, b)
    IN  IF Len(pushed) > HISTORY_CAPACITY THEN Tail(pushed) ELSE pushed

\* the oldest backup is removed instead of the newest
PopBackup_Oldest(hist) == SubSeq(hist, 2, Len(hist))

\* calibrationHistory.pop_back()
PopBackup(hist) == SubSeq(hist, 1, Len(hist) - 1)

AllDefault == [a \in Axes |-> DefaultRange]

NoBackup == [taken |-> FALSE, range |-> AllDefault, history |-> << >>]

\* the three saveCalibrationToRegistry calls for ranges rg, X then Z then RY
SaveCalls(rg) ==
    [i \in 1 .. 3 |-> [data |-> CalibrationString(i - 1, rg[i - 1]),
                       axisIndex |-> i - 1]]

\* the one call for an axis
SaveCall(axis, r) ==
    << [data |-> CalibrationString(axis, r), axisIndex |-> axis] >>

----------------------------------------------------------------------------
(* Start of any of the executables *)

\* wWinMain after CreateThread: the window thread in GetMessage with no handler
\* entered, UpdateThread before its first SendMessage
MessageLoop == [stack |-> << >>, thread |-> "Sleep"]

\* the Win32 executable after wWinMain reached its message loop: g_currentXRaw,
\* g_currentZRaw, g_currentRYRaw, g_xRange, g_zRange, g_ryRange as initialised,
\* no store call yet, and no sample so far that only one front-end took
PeerStarted ==
    [currentRaw |-> [a \in Axes |-> 0],
     range |-> [a \in Axes |-> [min |-> 0, max |-> 4095]],
     calls |-> << >>, same |-> TRUE]

\* a handler dispatched by the message loop that returns before the next message
\* is looked at, in an executable run on its own
Alone == UNCHANGED << sched, peer >>

Quiet ==
    /\ writes = << >>
    /\ setFailures = 0
    /\ ticks = 0
    /\ commands = 0
    /\ lastOp = NoOp
    /\ messageBox = ""
    /\ beforeBackup = NoBackup
    /\ readOut = NothingRead
    /\ sched = MessageLoop
    /\ peer = PeerStarted

\* the state after MainWindow::MainWindow or after wWinMain reached its message
\* loop: default ranges, no sample yet, the device acquired or not
Started ==
    /\ running = TRUE
    /\ g_pDevice \in (IF app = "Test" THEN { FALSE } ELSE BOOLEAN)
    /\ currentRaw = [a \in Axes |-> 0]
    /\ range = AllDefault
    /\ m_calibrated = FALSE
    /\ calibrationHistory = << >>
    /\ history = [a \in Axes |-> << >>]
    /\ calPercent = [a \in Axes |-> 0]
    /\ Quiet

\* the axis keys are the device driver's, this program creates none: a key this
\* program writes exists or not, the slots between them exist and are never
\* written
MayBeMissing == { << 2, 0, 4 >>[i] : i \in { j \in 1 .. 3 : j <= MaxMissingKeys } }
RegistryAtStart ==
    { reg \in [Slots -> { NoKey, NoValue }] :
        \A k \in Slots : k \notin MayBeMissing => reg[k] = NoValue }

Init ==
    /\ app \in { "Qt", "Win32", "Test" }
    /\ registry \in RegistryAtStart
    /\ Started

----------------------------------------------------------------------------
(* Calls of the store by a handler *)

\* what a handler that stores nothing leaves alone
NoStore ==
    /\ writes' = << >>
    /\ UNCHANGED << registry, setFailures >>

\* the outcomes of the RegSetValueExW calls of n consecutive saves
OkChoices(n) ==
    IF setFailures < MaxSetFailures THEN [1 .. n -> BOOLEAN]
    ELSE { [i \in 1 .. n |-> TRUE] }

\* a handler's saveCalibrationToRegistry calls, in order
Store(calls) ==
    \E oks \in OkChoices(Len(calls)) :
      \E s \in { SaveAll(registry, calls, oks, << >>) } :
        /\ setFailures + FailedSets(s.log) <= MaxSetFailures
        /\ registry' = s.reg
        /\ writes' = s.log
        /\ setFailures' = setFailures + FailedSets(s.log)
        /\ running' = ~s.threw

Quietly ==
    /\ messageBox' = ""
    /\ beforeBackup' = NoBackup

----------------------------------------------------------------------------
(* Handlers of the Qt front-end: GUI/mainwindow.cpp *)

\* Poll, and on failure Acquire and Poll again: how often Acquire was called, the
\* final hr, and what GetDeviceState returned if it was called
PollAttempt(poll1, poll2, got) ==
    << IF poll1 THEN 0 ELSE 1, poll1 \/ poll2, got >>

\* QTimer::timeout.  poll1 and poll2 are the outcomes of Poll before and after
\* Acquire, state that of GetDeviceState, js the device's lX, lZ, lRy.
updateValues(poll1, poll2, state, js) ==
    LET ok == g_pDevice /\ (poll1 \/ poll2) /\ state
        raw == [a \in Axes |-> ScaleRaw(js[a + 1])]
    IN  /\ app = "Qt" /\ running
        /\ IF ok
           THEN /\ currentRaw' = raw
                /\ history' = [a \in Axes |->
                                 PushSample(history[a],
                                            ForChart(m_calibrated, raw[a], range[a]))]
                /\ calPercent' = [a \in Axes |-> CalPercent(raw[a], range[a])]
                /\ ticks' = ticks + 1
           ELSE UNCHANGED << currentRaw, history, calPercent, ticks >>
        /\ lastOp' = [op |-> "updateValues", axis |-> -1, ok |-> ok,
                      arg |-> IF g_pDevice
                              THEN PollAttempt(poll1, poll2, (poll1 \/ poll2) /\ state)
                                     \o (IF ok THEN << Divisions(raw, range) >>
                                         ELSE << >>)
                              ELSE << >>]
        /\ Quietly
        /\ NoStore
        /\ UNCHANGED << app, readOut, running, g_pDevice, range, m_calibrated,
                        calibrationHistory, commands >>

\* Set Max leaves the display mode as it was
CalibratedBySetMax_Unchanged == m_calibrated

\* m_calibrated = true, in every case of setAxisMax
CalibratedBySetMax == TRUE

\* Reset backs the ranges up first, as Restore Defaults does
HistoryAfterReset_Backup == PushBackup(calibrationHistory, Snapshot(range))

\* resetCalibration does not touch calibrationHistory
HistoryAfterReset == calibrationHistory

\* the backup is taken after the ranges were reset
BackupOnRestoreDefaults_Late == Snapshot(AllDefault)

\* backupCurrentCalibration runs first in restoreDefaults: the ranges of before
BackupOnRestoreDefaults == Snapshot(range)

\* an empty history restores the defaults
EmptyHistoryRanges_Defaults == AllDefault

\* restoreLastCalibration returns at once on an empty history
EmptyHistoryRanges == range

\* the min of every axis is overwritten, not only the one asked for
AxisMinSet_Every(rg, raw, axis) ==
    [a \in Axes |-> [rg[a] EXCEPT !.min = raw[a]]]

\* xRange.min = currentXRaw, zRange.min = currentZRaw or ryRange.min = currentRYRaw
AxisMinSet(rg, raw, axis) ==
    [rg EXCEPT ![axis] = [rg[axis] EXCEPT !.min = raw[axis]]]

\* xRange.max = currentXRaw, zRange.max = currentZRaw or ryRange.max = currentRYRaw
AxisMaxSet(rg, raw, axis) ==
    [rg EXCEPT ![axis] = [rg[axis] EXCEPT !.max = raw[axis]]]

setAxisMin(axis) ==
    LET rg == AxisMinSet(range, currentRaw, axis)
    IN  /\ app = "Qt" /\ running
        /\ range' = rg
        /\ Store(SaveCall(axis, rg[axis]))
        /\ commands' = commands + 1
        /\ lastOp' = [op |-> "setAxisMin", axis |-> axis, ok |-> TRUE, arg |-> << >>]
        /\ Quietly
        /\ UNCHANGED << app, readOut, g_pDevice, currentRaw, m_calibrated,
                        calibrationHistory, history, calPercent, ticks >>

\* the chart started afresh when the display mode changes
HistoryAfterSetMax_Cleared ==
    IF m_calibrated THEN history ELSE [a \in Axes |-> << >>]

\* setAxisMax raises the flag and leaves xHistory, zHistory, ryHistory alone
HistoryAfterSetMax == history

setAxisMax(axis) ==
    LET rg == AxisMaxSet(range, currentRaw, axis)
    IN  /\ app = "Qt" /\ running
        /\ range' = rg
        /\ Store(SaveCall(axis, rg[axis]))
        /\ m_calibrated' = CalibratedBySetMax
        /\ history' = HistoryAfterSetMax
        /\ commands' = commands + 1
        /\ lastOp' = [op |-> "setAxisMax", axis |-> axis, ok |-> TRUE, arg |-> << >>]
        /\ Quietly
        /\ UNCHANGED << app, readOut, g_pDevice, currentRaw, calibrationHistory,
                        calPercent, ticks >>

resetCalibration ==
    /\ app = "Qt" /\ running
    /\ m_calibrated' = FALSE
    /\ range' = AllDefault
    /\ Store(SaveCalls(AllDefault))
    /\ calibrationHistory' = HistoryAfterReset
    /\ lastOp' = [op |-> "resetCalibration", axis |-> -1, ok |-> TRUE, arg |-> << >>]
    /\ Quietly
    /\ UNCHANGED << app, readOut, g_pDevice, currentRaw, history, calPercent, ticks,
                    commands >>

restoreDefaults ==
    /\ app = "Qt" /\ running
    /\ calibrationHistory' = PushBackup(calibrationHistory, BackupOnRestoreDefaults)
    /\ m_calibrated' = FALSE
    /\ range' = AllDefault
    /\ Store(SaveCalls(AllDefault))
    /\ lastOp' = [op |-> "restoreDefaults", axis |-> -1, ok |-> TRUE, arg |-> << >>]
    /\ messageBox' = "All axes have been reset to factory defaults."
    /\ beforeBackup' = [taken |-> TRUE, range |-> range,
                        history |-> calibrationHistory]
    /\ UNCHANGED << app, readOut, g_pDevice, currentRaw, history, calPercent, ticks, commands >>

\* the flag raised whenever a calibration is restored
CalibratedAfterRestoreLast_Raised == m_calibrated \/ calibrationHistory # << >>

\* restoreLastCalibration has no assignment to m_calibrated
CalibratedAfterRestoreLast == m_calibrated

restoreLastCalibration ==
    /\ app = "Qt" /\ running
    /\ m_calibrated' = CalibratedAfterRestoreLast
    /\ IF calibrationHistory = << >>
       THEN /\ messageBox' = "No previous calibration available"
            /\ lastOp' = [op |-> "restoreLastCalibration", axis |-> -1,
                          ok |-> FALSE, arg |-> << >>]
            /\ NoStore
            /\ range' = EmptyHistoryRanges
            /\ UNCHANGED << running, calibrationHistory >>
       ELSE LET backup == calibrationHistory[Len(calibrationHistory)]
            IN  /\ range' = Restored(backup)
                /\ calibrationHistory' = PopBackup(calibrationHistory)
                /\ Store(SaveCalls(Restored(backup)))
                /\ messageBox' = "Previous calibration restored successfully"
                /\ lastOp' = [op |-> "restoreLastCalibration", axis |-> -1,
                              ok |-> TRUE, arg |-> << >>]
    /\ beforeBackup' = NoBackup
    /\ UNCHANGED << app, readOut, g_pDevice, currentRaw, history,
                    calPercent, ticks, commands >>

\* a range is refused only when min is above max
validateAxisRange_Strict(r) ==
    IF r.min > r.max THEN [ok |-> FALSE, warning |-> "Invalid Range"]
    ELSE IF r.max - r.min < NARROW_SPAN THEN [ok |-> FALSE, warning |-> "Small Range"]
    ELSE [ok |-> TRUE, warning |-> ""]

\* MainWindow::validateAxisRange: what it returns and the title of the warning box
\* it shows
validateAxisRange(r) ==
    IF r.min >= r.max THEN [ok |-> FALSE, warning |-> "Invalid Range"]
    ELSE IF r.max - r.min < NARROW_SPAN THEN [ok |-> FALSE, warning |-> "Small Range"]
    ELSE [ok |-> TRUE, warning |-> ""]

\* a call of validateAxisRange with range r: a warning box at most
validateAxisRangeCall(r) ==
    /\ app = "Qt" /\ running
    /\ messageBox' = validateAxisRange(r).warning
    /\ lastOp' = [op |-> "validateAxisRange", axis |-> -1,
                  ok |-> validateAxisRange(r).ok, arg |-> << r >>]
    /\ beforeBackup' = NoBackup
    /\ NoStore
    /\ UNCHANGED << app, readOut, running, g_pDevice, currentRaw, range,
                    m_calibrated, calibrationHistory, history, calPercent, ticks,
                    commands >>

----------------------------------------------------------------------------
(* Handlers of the Win32 front-end: src/main.cpp, WindowProc *)

\* what the Win32 executable does not have
NoQtState == UNCHANGED << m_calibrated, calibrationHistory, history >>

\* whether WM_USER takes the sample: the guard is GetDeviceState alone
WM_USER_Taken(device, state) == device /\ state

\* WM_USER, sent by UpdateThread: the update depends on GetDeviceState alone
WM_USER(poll1, poll2, state, js) ==
    LET ok == WM_USER_Taken(g_pDevice, state)
        raw == [a \in Axes |-> ScaleRaw(js[a + 1])]
    IN  /\ app = "Win32" /\ running
        /\ IF ok
           THEN /\ currentRaw' = raw
                /\ calPercent' = [a \in Axes |-> CalPercent(raw[a], range[a])]
           ELSE UNCHANGED << currentRaw, calPercent >>
        /\ lastOp' = [op |-> "WM_USER", axis |-> -1, ok |-> ok,
                      arg |-> IF g_pDevice
                              THEN PollAttempt(poll1, poll2, state)
                                     \o (IF ok THEN << Divisions(raw, range) >>
                                         ELSE << >>)
                              ELSE << >>]
        /\ Quietly
        /\ NoStore /\ NoQtState
        /\ UNCHANGED << app, readOut, running, g_pDevice, range, ticks, commands >>

\* g_xRange.min = g_currentXRaw, and the same for Z and RY
Win32MinSet(rg, raw, axis) ==
    [rg EXCEPT ![axis] = [rg[axis] EXCEPT !.min = raw[axis]]]

\* g_xRange.max = g_currentXRaw, and the same for Z and RY
Win32MaxSet(rg, raw, axis) ==
    [rg EXCEPT ![axis] = [rg[axis] EXCEPT !.max = raw[axis]]]

\* SaveAxisCalibration(axisIndex): the string built from the global range of the
\* axis and the call it is passed to
SaveAxisCalibration(rg, axisIndex) ==
    << [data |-> CalibrationString(axisIndex, rg[axisIndex]),
        axisIndex |-> axisIndex] >>

\* ResetCalibration: g_xRange = g_zRange = g_ryRange = { 0, 4095 }
ResetCalibration == [a \in Axes |-> [min |-> 0, max |-> RAW_MAX]]

\* WM_COMMAND with ID_X_SET_MIN, ID_Z_SET_MIN or ID_RY_SET_MIN
WM_COMMAND_SET_MIN(axis) ==
    LET rg == Win32MinSet(range, currentRaw, axis)
    IN  /\ app = "Win32" /\ running
        /\ range' = rg
        /\ Store(SaveAxisCalibration(rg, axis))
        /\ commands' = commands + 1
        /\ lastOp' = [op |-> "ID_SET_MIN", axis |-> axis, ok |-> TRUE, arg |-> << >>]
        /\ Quietly
        /\ NoQtState
        /\ UNCHANGED << app, readOut, g_pDevice, currentRaw, calPercent, ticks >>

\* WM_COMMAND with ID_X_SET_MAX, ID_Z_SET_MAX or ID_RY_SET_MAX
WM_COMMAND_SET_MAX(axis) ==
    LET rg == Win32MaxSet(range, currentRaw, axis)
    IN  /\ app = "Win32" /\ running
        /\ range' = rg
        /\ Store(SaveAxisCalibration(rg, axis))
        /\ commands' = commands + 1
        /\ lastOp' = [op |-> "ID_SET_MAX", axis |-> axis, ok |-> TRUE, arg |-> << >>]
        /\ Quietly
        /\ NoQtState
        /\ UNCHANGED << app, readOut, g_pDevice, currentRaw, calPercent, ticks >>

\* WM_COMMAND with ID_RESET_CALIBRATION: ResetCalibration, then SaveAxisCalibration
\* of 0, 1 and 2
WM_COMMAND_RESET ==
    /\ app = "Win32" /\ running
    /\ range' = ResetCalibration
    /\ Store(SaveAxisCalibration(ResetCalibration, 0)
               \o SaveAxisCalibration(ResetCalibration, 1)
               \o SaveAxisCalibration(ResetCalibration, 2))
    /\ lastOp' = [op |-> "ID_RESET_CALIBRATION", axis |-> -1, ok |-> TRUE,
                  arg |-> << >>]
    /\ Quietly
    /\ NoQtState
    /\ UNCHANGED << app, readOut, g_pDevice, currentRaw, calPercent, ticks, commands >>

----------------------------------------------------------------------------
(* Direct callers of the store: src/ReadingWriting.cpp and RegistryHandler.h *)

NoController ==
    UNCHANGED << app, g_pDevice, currentRaw, range, m_calibrated,
                 calibrationHistory, history, calPercent, ticks >>

\* testCalibrationHandling: readCalibrationData prints, then the test string is
\* saved for axis 0
testCalibrationHandling ==
    /\ app = "Test" /\ running
    /\ \E junk \in JunkBytes : readOut' = ReadAll(registry, junk)
    /\ Store(<< [data |-> testData, axisIndex |-> 0] >>)
    /\ commands' = commands + 1
    /\ lastOp' = [op |-> "testCalibrationHandling", axis |-> 0, ok |-> TRUE,
                  arg |-> << >>]
    /\ Quietly
    /\ NoController

\* saveCalibrationToRegistry called with the string of a token list
StoreCall(tokens, axisIndex) ==
    /\ app = "Test" /\ running
    /\ Store(<< [data |-> Render(tokens), axisIndex |-> axisIndex] >>)
    /\ commands' = commands + 1
    /\ lastOp' = [op |-> "saveCalibrationToRegistry", axis |-> axisIndex,
                  ok |-> TRUE, arg |-> tokens]
    /\ readOut' = readOut
    /\ Quietly
    /\ NoController

\* readCalibrationData called on its own (declared in RegistryHandler.h)
readCalibrationData ==
    /\ app = "Test" /\ running
    /\ \E junk \in JunkBytes : readOut' = ReadAll(registry, junk)
    /\ lastOp' = [op |-> "readCalibrationData", axis |-> -1, ok |-> TRUE,
                  arg |-> << >>]
    /\ NoStore
    /\ Quietly
    /\ NoController
    /\ UNCHANGED << running, commands >>

----------------------------------------------------------------------------
(* The calibration controller with its store: every executable, every handler *)

Tick ==
    /\ ticks < MaxTicks
    /\ \E poll1, poll2, state \in BOOLEAN, js \in Polls :
          updateValues(poll1, poll2, state, js)
    /\ Alone
SetMin == commands < MaxCommands /\ Alone /\ \E axis \in Axes : setAxisMin(axis)
SetMax == commands < MaxCommands /\ Alone /\ \E axis \in Axes : setAxisMax(axis)
Reset == resetCalibration /\ Alone
RestoreDefaults == Len(calibrationHistory) < MaxBackups /\ restoreDefaults /\ Alone
RestoreLast == restoreLastCalibration /\ Alone

Win32Tick ==
    /\ \E poll1, poll2, state \in BOOLEAN, js \in Polls :
          WM_USER(poll1, poll2, state, js)
    /\ Alone
Win32SetMin ==
    commands < MaxCommands /\ Alone /\ \E axis \in Axes : WM_COMMAND_SET_MIN(axis)
Win32SetMax ==
    commands < MaxCommands /\ Alone /\ \E axis \in Axes : WM_COMMAND_SET_MAX(axis)
Win32Reset == WM_COMMAND_RESET /\ Alone

TestCall == commands < MaxCommands /\ testCalibrationHandling /\ Alone
DirectRead == readCalibrationData /\ Alone
DirectCall ==
    /\ commands < MaxCommands
    /\ \E tokens \in TokenLists, axisIndex \in AxisIndexes :
          StoreCall(tokens, axisIndex)
    /\ Alone

Next ==
    \/ Tick
    \/ SetMin
    \/ SetMax
    \/ Reset
    \/ RestoreDefaults
    \/ RestoreLast
    \/ Win32Tick
    \/ Win32SetMin
    \/ Win32SetMax
    \/ Win32Reset
    \/ TestCall
    \/ DirectCall
    \/ DirectRead

Spec == Init /\ [][Next]_vars

----------------------------------------------------------------------------
(* The integer percentage over the whole raw domain: a calibrated device is
   swept from 0 to 4095, one sample per tick *)

\* bounds a user may have set, among them the defaults
NormPoints == { 0, 1, 440, 2048, 3790, 4094, RAW_MAX }
NormRanges ==
    { [min |-> lo, max |-> hi] : lo \in NormPoints, hi \in NormPoints }

\* the smallest lX the device reports that scales to raw
JsFor(raw) == (raw * JS_MAX + RAW_MAX - 1) \div RAW_MAX

\* the sample after the current one: 0 first, then one more each tick
SweepNext == IF lastOp = NoOp THEN 0 ELSE currentRaw[0] + 1

InitNorm ==
    /\ app \in { "Qt", "Win32" }
    /\ registry = [k \in Slots |-> NoValue]
    /\ running = TRUE
    /\ g_pDevice = TRUE
    /\ currentRaw = [a \in Axes |-> 0]
    /\ \E r \in NormRanges : r.min < r.max /\ range = [a \in Axes |-> r]
    /\ m_calibrated = FALSE
    /\ calibrationHistory = << >>
    /\ history = [a \in Axes |-> << >>]
    /\ calPercent = [a \in Axes |-> 0]
    /\ Quiet

NormTick ==
    /\ SweepNext <= RAW_MAX
    /\ updateValues(TRUE, TRUE, TRUE, [i \in 1 .. 3 |-> JsFor(SweepNext)])
    /\ Alone

Win32NormTick ==
    /\ SweepNext <= RAW_MAX
    /\ WM_USER(TRUE, TRUE, TRUE, [i \in 1 .. 3 |-> JsFor(SweepNext)])
    /\ Alone

NextNorm ==
    \/ NormTick
    \/ Win32NormTick

SpecNorm == InitNorm /\ [][NextNorm]_vars

----------------------------------------------------------------------------
(* The percentage over every pair of bounds, those with min >= max among them
   (Set Min and Set Max accept any sample), with the raw sample swept from 0 to
   4095 *)

InitPercent ==
    /\ app \in { "Qt", "Win32" }
    /\ registry = [k \in Slots |-> NoValue]
    /\ running = TRUE
    /\ g_pDevice = TRUE
    /\ currentRaw = [a \in Axes |-> 0]
    /\ \E r \in NormRanges : range = [a \in Axes |-> r]
    /\ m_calibrated = FALSE
    /\ calibrationHistory = << >>
    /\ history = [a \in Axes |-> << >>]
    /\ calPercent = [a \in Axes |-> 0]
    /\ Quiet

NextPercent ==
    \/ NormTick
    \/ Win32NormTick

SpecPercent == InitPercent /\ [][NextPercent]_vars

----------------------------------------------------------------------------
(* The calibration history up to its capacity: the Qt front-end of a device whose
   axis keys were never created, so that no handler changes the registry *)

InitHist ==
    /\ app = "Qt"
    /\ registry = [k \in Slots |-> IF k \in { 0, 2, 4 } THEN NoKey ELSE NoValue]
    /\ Started
    /\ g_pDevice = TRUE

\* Restore Defaults as often as the user clicks it
RestoreDefaultsAgain == restoreDefaults /\ Alone

NextHist ==
    \/ Tick
    \/ SetMin
    \/ SetMax
    \/ Reset
    \/ RestoreDefaultsAgain
    \/ RestoreLast

SpecHist == InitHist /\ [][NextHist]_vars

----------------------------------------------------------------------------
(* The chart's sample buffers up to their capacity and beyond: the Qt front-end
   fed more than GRAPH_HISTORY samples, with a Set Max at any moment in between *)

\* the sample of the n-th successful tick: the device's reports in turn
BufSample(n) == PollTable[(n % Len(PollTable)) + 1]

BufTick ==
    /\ ticks < MaxBufTicks
    /\ \E poll1, poll2, state \in BOOLEAN :
          updateValues(poll1, poll2, state, BufSample(ticks))
    /\ Alone

BufSetMax ==
    commands < MaxBufCommands /\ Alone /\ \E axis \in Axes : setAxisMax(axis)

NextBuf ==
    \/ BufTick
    \/ BufSetMax

SpecBuf == InitHist /\ [][NextBuf]_vars

----------------------------------------------------------------------------
(* The chart across a change of display mode: the Qt front-end with every
   calibration handler and two samples *)

MixTick ==
    /\ ticks < MaxMixTicks
    /\ \E poll1, poll2, state \in BOOLEAN, js \in Polls :
          updateValues(poll1, poll2, state, js)
    /\ Alone

NextMix ==
    \/ MixTick
    \/ SetMin
    \/ SetMax
    \/ Reset
    \/ RestoreDefaults
    \/ RestoreLast

SpecMix == InitHist /\ [][NextMix]_vars

----------------------------------------------------------------------------
(* The two threads of the Win32 executable.  UpdateThread sends WM_USER with
   SendMessage and sleeps; the window thread runs WindowProc for the messages
   GetMessage hands it, and for a message sent from another thread also while
   it waits inside SendMessageTimeout, which refreshDeviceState calls without
   SMTO_BLOCK at the end of every saveCalibrationToRegistry.  A WM_COMMAND
   handler is therefore followed here up to each of these waits. *)

InitSched ==
    /\ app = "Win32"
    /\ registry \in RegistryAtStart
    /\ Started

\* what UpdateThread leaves alone: everything but its own place in the loop
NoWindowProc ==
    UNCHANGED << app, running, g_pDevice, currentRaw, range, m_calibrated,
                 calibrationHistory, history, calPercent, registry, writes,
                 setFailures, ticks, commands, lastOp, messageBox, beforeBackup,
                 readOut, peer >>

\* UpdateThread: SendMessage(hwnd, WM_USER, 0, 0) is called and blocks until the
\* window thread has run WindowProc for it
UpdateThread ==
    /\ app = "Win32" /\ running
    /\ sched.thread = "Sleep"
    /\ sched' = [sched EXCEPT !.thread = "SendMessage"]
    /\ NoWindowProc

\* the window thread, in GetMessage or waiting inside SendMessageTimeout, runs
\* WindowProc for the WM_USER that was sent; UpdateThread goes on to Sleep(10)
SentWM_USER ==
    /\ sched.thread = "SendMessage"
    /\ \E poll1, poll2, state \in BOOLEAN, js \in Polls :
          WM_USER(poll1, poll2, state, js)
    /\ sched' = [sched EXCEPT !.thread = "Sleep"]
    /\ peer' = peer

\* the handler the window thread is inside of, waiting in the broadcast of the
\* save it just made; next is the axis SaveAxisCalibration is called for after
\* the wait, 3 when the handler returns
InHandler(op, next) == << [op |-> op, next |-> next] >>

\* DispatchMessage of a Set Min click: the handler up to the broadcast
PostedSetMin ==
    /\ commands < MaxCommands
    /\ sched.stack = << >>
    /\ \E axis \in Axes : WM_COMMAND_SET_MIN(axis)
    /\ sched' = [sched EXCEPT !.stack = InHandler("ID_SET_MIN", 3)]
    /\ peer' = peer

\* DispatchMessage of a Set Max click: the handler up to the broadcast
PostedSetMax ==
    /\ commands < MaxCommands
    /\ sched.stack = << >>
    /\ \E axis \in Axes : WM_COMMAND_SET_MAX(axis)
    /\ sched' = [sched EXCEPT !.stack = InHandler("ID_SET_MAX", 3)]
    /\ peer' = peer

\* DispatchMessage of a Reset click: ResetCalibration and SaveAxisCalibration(0)
\* up to its broadcast
PostedReset ==
    /\ app = "Win32" /\ running
    /\ sched.stack = << >>
    /\ range' = ResetCalibration
    /\ Store(SaveAxisCalibration(ResetCalibration, 0))
    /\ lastOp' = [op |-> "ID_RESET_CALIBRATION", axis |-> -1, ok |-> TRUE,
                  arg |-> << >>]
    /\ Quietly
    /\ NoQtState
    /\ UNCHANGED << app, readOut, g_pDevice, currentRaw, calPercent, ticks, commands >>
    /\ sched' = [sched EXCEPT !.stack = InHandler("ID_RESET_CALIBRATION", 1)]
    /\ peer' = peer

\* SendMessageTimeout returns: the Reset handler goes on with SaveAxisCalibration
\* of the next axis up to that save's broadcast, any handler that has made its
\* last save returns to the message loop
SendMessageTimeoutReturns ==
    /\ app = "Win32" /\ running
    /\ sched.stack # << >>
    /\ LET next == sched.stack[1].next
       IN  IF next \in Axes
           THEN /\ Store(SaveAxisCalibration(range, next))
                /\ lastOp' = [op |-> sched.stack[1].op, axis |-> -1, ok |-> TRUE,
                              arg |-> << >>]
                /\ Quietly
                /\ sched' = [sched EXCEPT !.stack = InHandler(sched.stack[1].op,
                                                             next + 1)]
                /\ UNCHANGED << app, g_pDevice, currentRaw, range, m_calibrated,
                                calibrationHistory, history, calPercent, ticks,
                                commands, readOut, peer >>
           ELSE /\ sched' = [sched EXCEPT !.stack = << >>]
                /\ NoWindowProc

NextSched ==
    \/ UpdateThread
    \/ SentWM_USER
    \/ PostedSetMin
    \/ PostedSetMax
    \/ PostedReset
    \/ SendMessageTimeoutReturns

SpecSched == InitSched /\ [][NextSched]_vars

----------------------------------------------------------------------------
(* The two front-ends side by side: the Qt executable in the variables of the
   model, the Win32 one in peer, both started on the same machine and handed
   the same outcomes of the device calls and the same commands *)

InitPair ==
    /\ app = "Qt"
    /\ registry = [k \in Slots |-> NoValue]
    /\ Started

\* a timer tick in both: updateValues here, WM_USER in the peer
PairTick ==
    /\ ticks < MaxPairTicks
    /\ \E poll1, poll2, state \in BOOLEAN, js \in Polls :
          /\ updateValues(poll1, poll2, state, js)
          /\ peer' =
                [peer EXCEPT
                   !.currentRaw = IF WM_USER_Taken(g_pDevice, state)
                                  THEN [a \in Axes |-> ScaleRaw(js[a + 1])]
                                  ELSE @,
                   !.calls = << >>,
                   !.same = @ /\ (WM_USER_Taken(g_pDevice, state)
                                   = (g_pDevice /\ (poll1 \/ poll2) /\ state))]
    /\ sched' = sched

\* Set Min clicked in both
PairSetMin ==
    /\ commands < MaxCommands
    /\ \E axis \in Axes :
          /\ setAxisMin(axis)
          /\ LET rg == Win32MinSet(peer.range, peer.currentRaw, axis)
             IN  peer' = [peer EXCEPT !.range = rg,
                                      !.calls = SaveAxisCalibration(rg, axis)]
    /\ sched' = sched

\* Set Max clicked in both
PairSetMax ==
    /\ commands < MaxCommands
    /\ \E axis \in Axes :
          /\ setAxisMax(axis)
          /\ LET rg == Win32MaxSet(peer.range, peer.currentRaw, axis)
             IN  peer' = [peer EXCEPT !.range = rg,
                                      !.calls = SaveAxisCalibration(rg, axis)]
    /\ sched' = sched

\* Reset clicked in both
PairReset ==
    /\ resetCalibration
    /\ peer' = [peer EXCEPT !.range = ResetCalibration,
                             !.calls = SaveAxisCalibration(ResetCalibration, 0)
                                         \o SaveAxisCalibration(ResetCalibration, 1)
                                         \o SaveAxisCalibration(ResetCalibration, 2)]
    /\ sched' = sched

NextPair ==
    \/ PairTick
    \/ PairSetMin
    \/ PairSetMax
    \/ PairReset

SpecPair == InitPair /\ [][NextPair]_vars

----------------------------------------------------------------------------
(* The store on its own: a caller of RegistryHandler.h saves and reads while the
   axis keys hold whatever the driver or another program left in them *)

\* a "Calibration" value of the right kind and size, as the driver leaves it
FactoryValue ==
    Blob([min |-> 0, mid |-> 2047, max |-> RAW_MAX, minDeadzone |-> 0,
          maxDeadzone |-> 0])
\* REG_BINARY values shorter and longer than sizeof(AxisCalibration)
ShortValue == [key |-> TRUE, type |-> "REG_BINARY", data |-> << 1, 0, 0, 0, 2, 0, 0, 0 >>]
LongValue ==
    [key |-> TRUE, type |-> "REG_BINARY", data |-> [i \in 1 .. 24 |-> i % 3]]
\* a REG_SZ value of twenty bytes: ten wide characters
TextValue ==
    [key |-> TRUE, type |-> "REG_SZ",
     data |-> [i \in 1 .. 20 |-> IF i % 2 = 1 THEN 65 ELSE 0]]

ForeignValues == { NoKey, NoValue, FactoryValue, ShortValue, LongValue, TextValue }

\* slot 1, which the store never writes, holds any of these; the slots the store
\* writes hold the driver's value or none, and the key of Z may be missing
StoreRegistryAtStart ==
    { reg \in [Slots -> ForeignValues] :
        /\ reg[0] \in { NoValue, FactoryValue }
        /\ reg[2] \in { NoKey, NoValue }
        /\ reg[3] = NoValue
        /\ reg[4] = NoValue }

InitStore ==
    /\ app = "Test"
    /\ registry \in StoreRegistryAtStart
    /\ Started

\* a direct save of at most one token
DirectSave ==
    /\ commands < MaxCommands
    /\ \E tokens \in { t \in TokenLists : Len(t) <= 1 }, axisIndex \in AxisIndexes :
          StoreCall(tokens, axisIndex)
    /\ Alone

NextStore ==
    \/ TestCall
    \/ DirectSave
    \/ DirectRead

SpecStore == InitStore /\ [][NextStore]_vars

----------------------------------------------------------------------------
(* The range check of the Qt front-end, called with candidate ranges while the
   controller runs *)

\* bounds of candidate ranges: the defaults, calibrated values and spans around
\* the narrow limit
ValidatePoints == { 0, 100, 200, 408, 409, 509, 2048, 3790, RAW_MAX }
ValidateRanges ==
    { [min |-> lo, max |-> hi] : lo \in ValidatePoints, hi \in ValidatePoints }

InitValidate ==
    /\ app = "Qt"
    /\ registry = [k \in Slots |-> NoValue]
    /\ Started

Validate == Alone /\ \E r \in ValidateRanges : validateAxisRangeCall(r)

NextValidate ==
    \/ Tick
    \/ SetMax
    \/ Validate

SpecValidate == InitValidate /\ [][NextValidate]_vars

----------------------------------------------------------------------------
(* Claims *)

Ticked == lastOp.op \in { "updateValues", "WM_USER" } /\ lastOp.ok

\* q is the quotient of num by span, truncated
IsFloor(q, num, span) == q * span <= num /\ num < (q + 1) * span

\* C1, values: after a tick, the percentage of an axis whose range has min < max
\* is 0 at or below min, 100 at or above max and floor((raw - min) * 100 / (max -
\* min)) between them; it lies in 0..100, and 2048 on {0, 4095} gives 50
C1_Values ==
    Ticked =>
      \A a \in Axes :
        LET r == range[a]
            raw == currentRaw[a]
        IN  r.min < r.max =>
              /\ calPercent[a] \in 0 .. 100
              /\ raw <= r.min => calPercent[a] = 0
              /\ raw >= r.max => calPercent[a] = 100
              /\ (r.min < raw /\ raw < r.max) =>
                    IsFloor(calPercent[a], (raw - r.min) * 100, r.max - r.min)
              /\ (r = DefaultRange /\ raw = 2048) => calPercent[a] = 50

\* C1, order: a tick whose sample is not below the previous one, on an unchanged
\* range with min < max, does not lower the percentage
C1_Monotone ==
    \A a \in Axes :
      ( /\ Ticked /\ Ticked'
        /\ range'[a] = range[a] /\ range[a].min < range[a].max
        /\ currentRaw'[a] >= currentRaw[a] )
      => calPercent'[a] >= calPercent[a]

\* C1: the integer normalizer saturates at 0 and 100, truncates in between,
\* stays within [0,100] and is non-decreasing in raw, for every raw in 0..4095
C1_Normalizer == [](C1_Values) /\ [][C1_Monotone]_vars

\* C1 witness: a sample strictly inside a calibrated range, truncated
C1_Witness ==
    /\ Ticked
    /\ range[0] = [min |-> 440, max |-> 3790]
    /\ currentRaw[0] = 2048
    /\ calPercent[0] = 48

SetMinOps == { "setAxisMin", "ID_SET_MIN" }
SetMaxOps == { "setAxisMax", "ID_SET_MAX" }
ResetOps == { "resetCalibration", "ID_RESET_CALIBRATION" }

\* the registry slot of an axis: 0, 2, 4 for X, Z, RY
SlotOf(a) == 2 * a

\* the min and max of the record a slot holds
PersistedMin(slot) == DwordAt(registry[slot].data, 0)
PersistedMax(slot) == DwordAt(registry[slot].data, 8)

\* C2, one step: Set Min on axis a puts the axis' sample into its min, Set Max
\* into its max, and nothing else of the three ranges changes
C2_Step ==
    \A a \in Axes :
      /\ (lastOp'.op \in SetMinOps /\ lastOp'.axis = a) =>
            /\ range'[a].min = currentRaw[a]
            /\ range'[a].max = range[a].max
            /\ \A b \in Axes \ { a } : range'[b] = range[b]
      /\ (lastOp'.op \in SetMaxOps /\ lastOp'.axis = a) =>
            /\ range'[a].max = currentRaw[a]
            /\ range'[a].min = range[a].min
            /\ \A b \in Axes \ { a } : range'[b] = range[b]

\* C2: setMin(axis) / setMax(axis) overwrite that bound with the axis' most recent
\* raw sample and leave the other bound and the other two axes unchanged
C2_SetBound == [][C2_Step]_vars

\* C2 witness: Set Min on X took the sample 440 while Z was already calibrated
C2_Witness ==
    /\ lastOp.op \in SetMinOps /\ lastOp.axis = 0
    /\ range[0] = [min |-> 440, max |-> RAW_MAX]
    /\ range[1] # DefaultRange

\* C3, one step: the flag rises only in Set Max, Set Max always leaves it raised,
\* and Set Min and ticks leave it as it is
C3_Step ==
    /\ (m_calibrated' /\ ~m_calibrated) => lastOp'.op = "setAxisMax"
    /\ lastOp'.op = "setAxisMax" => m_calibrated'
    /\ lastOp'.op \in { "setAxisMin", "updateValues" } => m_calibrated' = m_calibrated

\* C3: calibrated is false at start, becomes true exactly when a setMax runs, and
\* setMin never changes it
C3_Calibrated == [](lastOp = NoOp => ~m_calibrated) /\ [][C3_Step]_vars

\* C3 witness: Set Max has just raised the flag
C3_Witness == lastOp.op = "setAxisMax" /\ m_calibrated /\ ticks = 1

\* C4: after Set Min / Set Max one write was issued for that axis, after Reset and
\* Restore Defaults three writes of {0,4095}, one per axis; each carries the live
\* range of its axis, and where it was stored the slot holds that min and max
C4_Persisted ==
    /\ lastOp.op \in SetMinOps \cup SetMaxOps =>
          /\ Len(writes) = 1
          /\ writes[1].axisIndex = lastOp.axis
    /\ lastOp.op \in ResetOps \cup { "restoreDefaults" } =>
          /\ Len(writes) = 3
          /\ \A a \in Axes : writes[a + 1].axisIndex = a
          /\ range = AllDefault
    /\ lastOp.op \in SetMinOps \cup SetMaxOps \cup ResetOps \cup { "restoreDefaults" } =>
          \A i \in 1 .. Len(writes) :
            LET a == writes[i].axisIndex
            IN  /\ ~writes[i].threw
                /\ writes[i].slot = SlotOf(a)
                /\ writes[i].axisData.min = range[a].min
                /\ writes[i].axisData.max = range[a].max
                /\ writes[i].stored =>
                      /\ PersistedMin(SlotOf(a)) = range[a].min
                      /\ PersistedMax(SlotOf(a)) = range[a].max

\* C4 witness: Set Min on X stored the new range
C4_Witness ==
    /\ lastOp.op \in SetMinOps /\ lastOp.axis = 0
    /\ writes[1].stored
    /\ range[0].min = 440
    /\ PersistedMin(0) = 440

\* C5, one step: Reset leaves three default ranges, the flag off and the history
\* as it was
C5_Step ==
    lastOp'.op \in ResetOps =>
      /\ \A a \in Axes : range'[a] = [min |-> 0, max |-> RAW_MAX]
      /\ ~m_calibrated'
      /\ calibrationHistory' = calibrationHistory

\* C5: reset() sets all three ranges to {0,4095} and calibrated to false and pushes
\* no backup
C5_Reset == [][C5_Step]_vars

\* C5 witness: Reset ran with a backup of a calibrated state in the history
C5_Witness ==
    /\ lastOp.op = "resetCalibration"
    /\ Len(calibrationHistory) = 1
    /\ calibrationHistory[1].x # DefaultRange

\* C6, one step: Restore Defaults appends the ranges of before the call and
\* resets; no other handler lengthens the history or changes a kept entry
C6_Step ==
    /\ lastOp'.op = "restoreDefaults" =>
          /\ Len(calibrationHistory') >= 1
          /\ LET pushed == calibrationHistory'[Len(calibrationHistory')]
             IN  /\ pushed.x = range[0]
                 /\ pushed.z = range[1]
                 /\ pushed.ry = range[2]
          /\ \A a \in Axes : range'[a] = [min |-> 0, max |-> RAW_MAX]
          /\ ~m_calibrated'
    /\ lastOp'.op # "restoreDefaults" =>
          /\ Len(calibrationHistory') <= Len(calibrationHistory)
          /\ \A i \in 1 .. Len(calibrationHistory') :
                calibrationHistory'[i] = calibrationHistory[i]

\* C6: restoreDefaults() pushes the snapshot of the live ranges of just before,
\* then resets; it is the only handler that appends to the history
C6_RestoreDefaults == [][C6_Step]_vars

\* C6 witness: the backup Restore Defaults pushed holds a calibrated X range
C6_Witness ==
    /\ lastOp.op = "restoreDefaults"
    /\ calibrationHistory[Len(calibrationHistory)].x = [min |-> 440, max |-> RAW_MAX]
    /\ range = AllDefault

\* C7, one step: a backup is appended at the end, and on a full history the
\* oldest entry goes
C7_Step ==
    lastOp'.op = "restoreDefaults" =>
      LET kept == IF Len(calibrationHistory) = 10
                  THEN Tail(calibrationHistory)
                  ELSE calibrationHistory
      IN  calibrationHistory' = Append(kept, [x |-> range[0], z |-> range[1],
                                              ry |-> range[2]])

\* C7: the history never holds more than 10 snapshots, in push order; a backup
\* onto a full history evicts exactly the oldest
C7_Capacity == [](Len(calibrationHistory) <= 10) /\ [][C7_Step]_vars

\* C7 witness: the eleventh backup evicted the first, which differed from the
\* second
C7_Witness ==
    /\ lastOp.op = "restoreDefaults"
    /\ Len(beforeBackup.history) = 10
    /\ beforeBackup.history[1] # beforeBackup.history[2]
    /\ Len(calibrationHistory) = 10
    /\ calibrationHistory[1] = beforeBackup.history[2]

\* C8, one step: Restore Last on a non-empty history makes the newest backup the
\* live ranges and removes it; right after a backup that evicted nothing this
\* gives back the ranges and the history of before that backup
C8_Step ==
    (lastOp'.op = "restoreLastCalibration" /\ calibrationHistory # << >>) =>
      LET n == Len(calibrationHistory)
          newest == calibrationHistory[n]
      IN  /\ range'[0] = newest.x /\ range'[1] = newest.z /\ range'[2] = newest.ry
          /\ calibrationHistory' = SubSeq(calibrationHistory, 1, n - 1)
          /\ (beforeBackup.taken /\ Len(beforeBackup.history) < 10) =>
                /\ range' = beforeBackup.range
                /\ calibrationHistory' = beforeBackup.history

\* C8: restoreLast() pops the most recently pushed snapshot; immediately after
\* backup(S) it yields S and leaves the history as before that backup
C8_RestoreLast == [][C8_Step]_vars

\* C8 witness: Restore Last gave back a calibrated X range and left an older
\* backup in the history
C8_Witness ==
    /\ lastOp.op = "restoreLastCalibration" /\ lastOp.ok
    /\ range[0] = [min |-> 440, max |-> RAW_MAX]
    /\ Len(calibrationHistory) >= 1

\* C9, one step: Restore Last on an empty history reports it and changes nothing
C9_Step ==
    (lastOp'.op = "restoreLastCalibration" /\ calibrationHistory = << >>) =>
      /\ messageBox' = "No previous calibration available"
      /\ range' = range
      /\ m_calibrated' = m_calibrated
      /\ calibrationHistory' = << >>
      /\ registry' = registry
      /\ writes' = << >>
      /\ running'

\* C9: restoreLast() on an empty history reports EmptyHistory and is a no-op:
\* ranges, flag, history and registry unchanged, no store write
C9_EmptyHistory == [][C9_Step]_vars

\* C9 witness: Restore Last found no backup while X was calibrated
C9_Witness ==
    /\ lastOp.op = "restoreLastCalibration" /\ ~lastOp.ok
    /\ messageBox = "No previous calibration available"
    /\ range[0] # DefaultRange
    /\ m_calibrated

ControllerOps ==
    SetMinOps \cup SetMaxOps \cup ResetOps
      \cup { "restoreDefaults", "restoreLastCalibration" }

\* the names of the two bounds of an axis as tokens carry them; an axis index
\* outside X, Z, RY has none
BoundName(which, a) ==
    IF a = 0 THEN which \o << "X" >>
    ELSE IF a = 1 THEN which \o << "Z" >>
    ELSE IF a = 2 THEN which \o << "R", "Y" >>
    ELSE << >>

RECURSIVE OwnValue(_, _, _)
\* the value of the last token of that name in a token list, else the default
OwnValue(tokens, name, default) ==
    IF tokens = << >> THEN default
    ELSE IF tokens[Len(tokens)].name = name THEN tokens[Len(tokens)].value
    ELSE OwnValue(SubSeq(tokens, 1, Len(tokens) - 1), name, default)

\* C10: every record the store writes has mid = floor((min + max) / 2); the
\* records of controller operations have both deadzones 0; min and max are those
\* of the target axis' own Min and Max tokens, whatever other tokens the string
\* holds, and min 440 with max 3790 on X is stored as {440, 2115, 3790, 0, 0}
C10_Records ==
    /\ \A i \in 1 .. Len(writes) :
          ~writes[i].threw =>
            LET d == writes[i].axisData
                a == writes[i].axisIndex
            IN  /\ IsFloor(d.mid, d.min + d.max, 2)
                /\ lastOp.op \in ControllerOps =>
                      d.minDeadzone = 0 /\ d.maxDeadzone = 0
                /\ lastOp.op = "saveCalibrationToRegistry" =>
                      /\ d.min = OwnValue(lastOp.arg, BoundName(<< "M", "i", "n" >>, a), 0)
                      /\ d.max = OwnValue(lastOp.arg, BoundName(<< "M", "a", "x" >>, a),
                                          RAW_MAX)
                /\ (d.min = 440 /\ d.max = 3790 /\ lastOp.op \in ControllerOps) =>
                      d = [min |-> 440, mid |-> 2115, max |-> 3790,
                           minDeadzone |-> 0, maxDeadzone |-> 0]
                /\ writes[i].stored =>
                      registry[writes[i].slot].data =
                          DwordBytes(d.min) \o DwordBytes(d.mid) \o DwordBytes(d.max)
                            \o DwordBytes(d.minDeadzone) \o DwordBytes(d.maxDeadzone)
    /\ \A k \in Slots :
          registry[k].type = "REG_BINARY" =>
            IsFloor(DwordAt(registry[k].data, 4),
                    DwordAt(registry[k].data, 0) + DwordAt(registry[k].data, 8), 2)

\* C10 witness: Set Max on X after Set Min stored {440, 2115, 3790, 0, 0}
C10_Witness ==
    /\ lastOp.op \in SetMaxOps /\ lastOp.axis = 0
    /\ writes[1].stored
    /\ writes[1].axisData = [min |-> 440, mid |-> 2115, max |-> 3790,
                             minDeadzone |-> 0, maxDeadzone |-> 0]
    /\ DwordAt(registry[0].data, 4) = 2115

\* C10 witness for the tokens: a direct call for X whose string also held a token
\* of another axis stored X's own bounds only
C10_TokenWitness ==
    /\ lastOp.op = "saveCalibrationToRegistry" /\ lastOp.axis = 0
    /\ Len(lastOp.arg) = 2
    /\ lastOp.arg[1].name = << "M", "i", "n", "X" >>
    /\ lastOp.arg[2].name = << "M", "i", "n", "Z" >>
    /\ writes[1].stored
    /\ writes[1].axisData.min = 440 /\ writes[1].axisData.max = RAW_MAX

ReadOps == { "readCalibrationData", "testCalibrationHandling" }

\* C11, one step: a read that directly follows a handler's successful write for
\* axis X, Z or RY prints for that axis the five values that were written
C11_Step ==
    lastOp'.op \in ReadOps =>
      \A i \in 1 .. Len(writes) :
        (writes[i].stored /\ writes[i].axisIndex \in Axes) =>
          readOut'[writes[i].axisIndex] =
              [kind |-> "record", axisData |-> writes[i].axisData]

\* C11: for each axis in {X, Z, RY}, reading the axis' record after a successful
\* write for that axis, with no write in between, yields exactly the {min, mid,
\* max, minDeadzone, maxDeadzone} that was written
C11_RoundTrip == [][C11_Step]_vars

\* the slot the external layout gives an axis
LayoutSlot(a) == << 0, 2, 4 >>[a + 1]

\* the axes a step's store calls were for
WrittenAxes(log) == { log[i].axisIndex : i \in 1 .. Len(log) }

\* C12, one step: calls for X, Z, RY open slot 0, 2, 4, a successful one leaves
\* its record there, and every slot that is not the target of a call of the
\* step keeps its key and value
C12_Step ==
    (writes' # << >> /\ WrittenAxes(writes') \subseteq Axes) =>
      /\ \A i \in 1 .. Len(writes') :
            writes'[i].slot = LayoutSlot(writes'[i].axisIndex)
      /\ \A k \in Slots :
            k \notin { LayoutSlot(a) : a \in WrittenAxes(writes') } =>
                registry'[k] = registry[k]
      /\ \A i \in 1 .. Len(writes') :
            (writes'[i].stored
               /\ \A j \in (i + 1) .. Len(writes') : writes'[j].slot # writes'[i].slot) =>
                /\ registry'[LayoutSlot(writes'[i].axisIndex)].type = "REG_BINARY"
                /\ DwordAt(registry'[LayoutSlot(writes'[i].axisIndex)].data, 0)
                      = writes'[i].axisData.min

\* C12: a store write for axis X, Z or RY targets registry slot 0, 2 or 4 under
\* the Axes key, and leaves the records of every other slot unchanged
C12_Slots == [][C12_Step]_vars

\* C12 witness: a write for Z went to slot 2 while slot 1 kept a foreign value
C12_Witness ==
    /\ lastOp.op = "saveCalibrationToRegistry" /\ lastOp.axis = 1
    /\ writes[1].stored
    /\ writes[1].axisData.min = 100
    /\ registry[2].type = "REG_BINARY"
    /\ DwordAt(registry[2].data, 0) = 100
    /\ registry[1] = TextValue

\* C13: the device-refresh notification is issued after a store write only when
\* the write succeeded; a write whose key cannot be opened or whose value cannot
\* be set issues none
C13_RefreshOnSuccess ==
    \A i \in 1 .. Len(writes) :
      /\ writes[i].stored => writes[i].refreshed
      /\ writes[i].refreshed => writes[i].stored

\* the key a read looks up for its axis index (which key that should be is C11's
\* matter, not C14's)
ReadSlot(a) == a

\* C14: read(axis) fails with NotFound when the axis' key is absent and with
\* Corrupt when the stored value is not exactly 20 bytes or not of the binary
\* record kind; it returns a record only for a 20-byte binary value
C14_ReadErrors ==
    lastOp.op = "readCalibrationData" =>
      \A a \in Axes :
        LET v == registry[ReadSlot(a)]
        IN  /\ ~v.key => readOut[a].kind = "none"
            /\ (v.key /\ v.type # "" /\ (Len(v.data) # 20 \/ v.type # "REG_BINARY")) =>
                  readOut[a].kind = "failed"
            /\ readOut[a].kind = "record" =>
                  (v.type = "REG_BINARY" /\ Len(v.data) = 20)

TickOps == { "updateValues", "WM_USER" }

\* C15, one step: a Set Min at or above the axis' max, or a Set Max at or below
\* its min, changes neither the axis' range nor its stored record, and a range
\* with min < max still has min < max after any Set Min or Set Max
C15_Step ==
    \A a \in Axes :
      /\ (lastOp'.op \in SetMinOps /\ lastOp'.axis = a
            /\ currentRaw[a] >= range[a].max) =>
              (range'[a] = range[a] /\ registry'[2 * a] = registry[2 * a])
      /\ (lastOp'.op \in SetMaxOps /\ lastOp'.axis = a
            /\ currentRaw[a] <= range[a].min) =>
              (range'[a] = range[a] /\ registry'[2 * a] = registry[2 * a])
      /\ (lastOp'.op \in SetMinOps \cup SetMaxOps /\ range[a].min < range[a].max) =>
              range'[a].min < range'[a].max

\* C15: a setMin or setMax whose result would leave the axis with min >= max is
\* rejected, the live range and the persisted record keeping their prior values,
\* so that every live range has min < max after every accepted operation
C15_InvalidRejected == [][C15_Step]_vars

\* C16, one step: the ranges a tick computes its percentages with all have
\* min # max
C16_Step ==
    (lastOp'.op \in TickOps /\ lastOp'.ok) =>
      \A a \in Axes : range[a].min # range[a].max

\* C16: in every reachable state no range with min = max is passed to the
\* normalizer on a tick
C16_NoZeroWidth == [][C16_Step]_vars

\* the range a check was called with
Checked == lastOp.arg[1]

\* C17: validateRange on a range with min < max and span below 409 reports the
\* NarrowRange warning and still succeeds, as for {100, 200}
C17_NarrowAccepted ==
    (lastOp.op = "validateAxisRange"
       /\ Checked.min < Checked.max /\ Checked.max - Checked.min < 409) =>
          (lastOp.ok /\ messageBox = "Small Range")

\* C18, results: a checked range with min >= max is refused as invalid, one with
\* max - min >= 409 is accepted without a warning
C18_Results ==
    lastOp.op = "validateAxisRange" =>
      /\ Checked.min >= Checked.max =>
            (~lastOp.ok /\ messageBox = "Invalid Range")
      /\ Checked.max - Checked.min >= 409 => (lastOp.ok /\ messageBox = "")

\* C18, one step: a check leaves the calibration state as it was
C18_Step ==
    lastOp'.op = "validateAxisRange" =>
      /\ range' = range
      /\ m_calibrated' = m_calibrated
      /\ calibrationHistory' = calibrationHistory
      /\ currentRaw' = currentRaw
      /\ registry' = registry
      /\ writes' = << >>

\* C18: validateRange fails with InvalidRange for every range with min >= max,
\* succeeds without warning for every range with max - min >= 409, and never
\* modifies any calibration state
C18_Validate == [](C18_Results) /\ [][C18_Step]_vars

\* C18 witness: the check refused an empty range {409, 409} while X was calibrated
C18_Witness ==
    /\ lastOp.op = "validateAxisRange"
    /\ Checked = [min |-> 409, max |-> 409]
    /\ ~lastOp.ok
    /\ m_calibrated
    /\ range[0] # DefaultRange

\* C18 witness for acceptance: a span of exactly 409 passed without a warning
C18_AcceptWitness ==
    /\ lastOp.op = "validateAxisRange"
    /\ Checked = [min |-> 100, max |-> 509]
    /\ lastOp.ok /\ messageBox = ""

\* C19, one step: a tick on a device calls Acquire once if and only if its first
\* poll failed, and if the poll after that failed as well the three raw
\* samples, the sample buffers and the percentages stay as they were
C19_Step ==
    (lastOp'.op \in TickOps /\ lastOp'.arg # << >>) =>
      /\ lastOp'.arg[1] \in { 0, 1 }
      /\ lastOp'.arg[1] = 0 => lastOp'.arg[2]
      /\ ~lastOp'.arg[2] =>
            /\ lastOp'.arg[1] = 1
            /\ currentRaw' = currentRaw
            /\ history' = history
            /\ calPercent' = calPercent

\* C19: on a tick whose poll fails exactly one re-acquisition and re-poll is
\* attempted; if the source is still unavailable the update is skipped, and the
\* raw samples, the sample buffers and the displayed percentages keep their
\* previous values
C19_PollRetry == [][C19_Step]_vars

\* C20, one step: with no device acquired at startup, Set Min, Set Max, Reset,
\* Restore Defaults and Restore Last change no range, not the flag and no stored
\* record
C20_Step ==
    (~g_pDevice /\ lastOp'.op \in ControllerOps) =>
      /\ range' = range
      /\ m_calibrated' = m_calibrated
      /\ registry' = registry

\* C20: in "no device" mode setMin, setMax and the other calibration operations
\* are no-ops: they change neither the live ranges, the calibrated flag nor any
\* persisted record
C20_NoDeviceNoOp == [][C20_Step]_vars

----------------------------------------------------------------------------
\* the 20 bytes of { min 0, mid 2047, max 4095, minDeadzone 0, maxDeadzone 0 }
DefaultRecordBytes ==
    << 0, 0, 0, 0,  255, 7, 0, 0,  255, 15, 0, 0,  0, 0, 0, 0,  0, 0, 0, 0 >>

\* C27, one step: a save for an axis index outside {0,1,2} throws nothing
\* whatever its tokens are, makes one call that targets slot 0 with the default
\* record, and when the value is set slot 0 holds exactly that record in place
\* of what it held; no other slot changes
C27_Step ==
    (lastOp'.op = "saveCalibrationToRegistry" /\ lastOp'.axis \notin Axes) =>
      /\ Len(writes') = 1
      /\ ~writes'[1].threw
      /\ writes'[1].slot = 0
      /\ writes'[1].axisData
            = [min |-> 0, mid |-> 2047, max |-> 4095,
               minDeadzone |-> 0, maxDeadzone |-> 0]
      /\ writes'[1].stored =>
            /\ registry'[0].type = "REG_BINARY"
            /\ registry'[0].data = DefaultRecordBytes
      /\ \A k \in Slots \ { 0 } : registry'[k] = registry[k]

\* C27: saveCalibrationToRegistry called with an axis index outside {0,1,2}
\* parses no token and writes the default record {min 0, mid 2047, max 4095,
\* deadzones 0} to slot 0, over the record stored for the X axis
C27_OutOfRangeAxis == [][C27_Step]_vars

\* C27 witness: a save for axis index 3 that carried "MinX=440;" was stored,
\* and slot 0 holds min 0 and max 4095
C27_Witness ==
    /\ lastOp.op = "saveCalibrationToRegistry" /\ lastOp.axis = 3
    /\ Len(lastOp.arg) = 1
    /\ lastOp.arg[1].name = << "M", "i", "n", "X" >> /\ lastOp.arg[1].value = 440
    /\ writes[1].stored
    /\ registry[0].data = DefaultRecordBytes
    /\ PersistedMin(0) = 0 /\ PersistedMax(0) = 4095

----------------------------------------------------------------------------
\* the divisions the tick that ran last made, by axis
Divided == lastOp.arg[4]

\* C24: the integer percentage divides only when min < raw < max: whatever the
\* range, min >= max included, and whatever the raw sample, the divisor of a
\* division it makes is a positive span, the dividend is not negative, and the
\* percentage it puts on the bar lies in 0..100
C24_SafeDivision ==
    Ticked =>
      \A a \in Axes :
        /\ calPercent[a] \in 0 .. 100
        /\ Divided[a] # << >> =>
              /\ range[a].min < currentRaw[a] /\ currentRaw[a] < range[a].max
              /\ Divided[a][2] > 0
              /\ Divided[a][1] >= 0
              /\ Divided[a][2] = range[a].max - range[a].min
        /\ (range[a].min < currentRaw[a] /\ currentRaw[a] < range[a].max) =>
              Divided[a] # << >>

\* C24 witness: with min 3790 above max 440 a tick took a sample between the
\* two and divided nothing, and the bar shows 0
C24_Witness ==
    /\ Ticked
    /\ range[0] = [min |-> 3790, max |-> 440]
    /\ currentRaw[0] = 2048
    /\ Divided[0] = << >>
    /\ calPercent[0] = 0

\* C24 witness: with min 440 below max 3790 the same sample was divided by 3350
C24_DivideWitness ==
    /\ Ticked
    /\ range[0] = [min |-> 440, max |-> 3790]
    /\ currentRaw[0] = 2048
    /\ Divided[0] = << 160800, 3350 >>
    /\ calPercent[0] = 48

----------------------------------------------------------------------------
\* C25, one step: Restore Last never changes the flag; on a non-empty history it
\* makes the newest snapshot the three live ranges and issues one write per
\* axis carrying them, and where a write was stored the slot holds that min and
\* max; right after Restore Defaults the ranges, and the stored min and max, are
\* those of before Restore Defaults, and the flag is still off
C25_Step ==
    lastOp'.op = "restoreLastCalibration" =>
      /\ m_calibrated' = m_calibrated
      /\ calibrationHistory # << >> =>
            LET newest == calibrationHistory[Len(calibrationHistory)]
            IN  /\ range'[0] = newest.x /\ range'[1] = newest.z
                /\ range'[2] = newest.ry
                /\ Len(writes') = 3
                /\ \A a \in Axes :
                      /\ writes'[a + 1].axisIndex = a
                      /\ writes'[a + 1].slot = SlotOf(a)
                      /\ writes'[a + 1].axisData.min = newest[<< "x", "z", "ry" >>[a + 1]].min
                      /\ writes'[a + 1].axisData.max = newest[<< "x", "z", "ry" >>[a + 1]].max
                      /\ writes'[a + 1].stored =>
                            /\ DwordAt(registry'[SlotOf(a)].data, 0) = range'[a].min
                            /\ DwordAt(registry'[SlotOf(a)].data, 8) = range'[a].max
      /\ (lastOp.op = "restoreDefaults" /\ beforeBackup.taken) =>
            /\ range' = beforeBackup.range
            /\ ~m_calibrated'
            /\ \A a \in Axes :
                  writes'[a + 1].stored =>
                    /\ DwordAt(registry'[SlotOf(a)].data, 0) = beforeBackup.range[a].min
                    /\ DwordAt(registry'[SlotOf(a)].data, 8) = beforeBackup.range[a].max

\* C25: restoreLast() with a non-empty history sets the three live ranges to the
\* popped snapshot and persists all three axes but never changes the calibrated
\* flag: after restoreDefaults() followed by restoreLast() the live ranges and
\* the persisted min and max are those of before restoreDefaults while
\* calibrated remains false
C25_RestoreKeepsFlag == [][C25_Step]_vars

\* C25 witness: Restore Last brought back the X range whose max Set Max had set
\* (which raised the flag) and stored it, and the flag is off
C25_Witness ==
    /\ lastOp.op = "restoreLastCalibration" /\ lastOp.ok
    /\ range[0] = [min |-> 0, max |-> 3790]
    /\ ~m_calibrated
    /\ writes[1].stored
    /\ PersistedMin(0) = 0 /\ PersistedMax(0) = 3790

----------------------------------------------------------------------------
\* v is the raw sample raw, as the chart stores it
IsRawEntry(v, raw) == v = [num |-> raw, den |-> 1]

\* v is the percentage of raw within r clamped to 0..100: 0 at or below min,
\* 100 at or above max, the exact quotient in between (r.min < r.max)
IsPercentEntry(v, raw, r) ==
    /\ v.den > 0 /\ v.num >= 0 /\ v.num <= 100 * v.den
    /\ r.min < r.max =>
          /\ raw <= r.min => v = [num |-> 0, den |-> 1]
          /\ raw >= r.max => v = [num |-> 100, den |-> 1]
          /\ (r.min < raw /\ raw < r.max) =>
                v.num * (r.max - r.min) = (raw - r.min) * 100 * v.den

\* C22, any state: no buffer holds more than 100 entries and the three have the
\* same length
C22_Bounded ==
    /\ \A a \in Axes : Len(history[a]) <= 100
    /\ Len(history[0]) = Len(history[1]) /\ Len(history[1]) = Len(history[2])

\* C22, one step: a successful tick puts one entry at the end of each buffer,
\* the raw sample with the flag off and the clamped percentage with it on, and
\* drops the oldest entry of a buffer that held 100; a failed tick changes none
C22_Step ==
    /\ (lastOp'.op = "updateValues" /\ lastOp'.ok /\ ticks' = ticks + 1) =>
          \A a \in Axes :
            LET n == Len(history[a])
                kept == IF n < 100 THEN history[a] ELSE SubSeq(history[a], 2, n)
            IN  /\ Len(history'[a]) = Len(kept) + 1
                /\ SubSeq(history'[a], 1, Len(kept)) = kept
                /\ IF m_calibrated
                   THEN IsPercentEntry(history'[a][Len(kept) + 1],
                                       currentRaw'[a], range[a])
                   ELSE IsRawEntry(history'[a][Len(kept) + 1], currentRaw'[a])
    /\ (lastOp'.op = "updateValues" /\ ~lastOp'.ok) => history' = history

\* C22: after every tick each per-axis sample buffer holds at most 100 entries;
\* a successful tick appends exactly one entry to each of the three buffers (the
\* raw sample when calibrated is false, the clamped percentage when true) and
\* evicts the oldest entry when the size would exceed 100, so the three buffers
\* always have equal length
C22_SampleBuffers == [](C22_Bounded) /\ [][C22_Step]_vars

\* C22 witness: after 102 samples each buffer holds 100 entries, the oldest a
\* raw sample above 100 and the newest a percentage that is not a whole number
C22_Witness ==
    /\ ticks = 102 /\ m_calibrated
    /\ \A a \in Axes : Len(history[a]) = 100
    /\ history[0][1].den = 1 /\ history[0][1].num > 100
    /\ history[0][100].den > 1 /\ history[0][100].num < 100 * history[0][100].den

----------------------------------------------------------------------------
\* the handlers that change the calibration
CalibrationOps ==
    { "setAxisMin", "setAxisMax", "resetCalibration", "restoreDefaults",
      "restoreLastCalibration" }

\* C26, one step: a calibration handler leaves the three buffers as they were,
\* whether it changes the flag or not
C26_Step == lastOp'.op \in CalibrationOps => history' = history

\* C26: setMin, setMax, reset, restoreDefaults and restoreLast leave the three
\* sample buffers unchanged, so entries recorded under the previous display mode
\* stay when calibrated flips
C26_BuffersKept == [][C26_Step]_vars

\* C26 witness: Set Max on X has just raised the flag and the X buffer still
\* holds the raw sample 3790 recorded before it
C26_Witness ==
    /\ lastOp.op = "setAxisMax" /\ lastOp.axis = 0 /\ m_calibrated
    /\ history[0] = << [num |-> 3790, den |-> 1] >>

\* C26 witness: the X buffer holds the raw sample 3790 and, after it, the
\* percentage 4400/379 of the sample 440, while Reset has put the flag off again
C26_MixedWitness ==
    /\ lastOp.op = "resetCalibration" /\ ~m_calibrated
    /\ history[0] = << [num |-> 3790, den |-> 1], [num |-> 4400, den |-> 379] >>

----------------------------------------------------------------------------
\* what WindowProc reads and writes of the calibration
CalibrationState == << currentRaw, range, calPercent, registry, writes >>

\* C21, one step: a tick is handled only when no Set Min, Set Max or Reset
\* handler is under way and such a handler is entered only when none is;
\* UpdateThread's own step leaves the calibration state alone
C21_Step ==
    /\ (sched.thread = "SendMessage" /\ sched'.thread = "Sleep") =>
          sched.stack = << >>
    /\ (sched'.stack # << >> /\ sched.stack # sched'.stack) =>
          (sched.stack = << >> \/ sched'.stack[1].op = sched.stack[1].op)
    /\ (sched.thread = "Sleep" /\ sched'.thread = "SendMessage") =>
          UNCHANGED CalibrationState

\* C21: tick processing and user commands never interleave: a tick runs to
\* completion before any setMin/setMax/reset is handled and the other way round,
\* and the Win32 UpdateThread only sends the tick and never touches the
\* calibration state itself
C21_NoInterleaving == [][C21_Step]_vars

----------------------------------------------------------------------------
\* the record a call of the store writes: what saveCalibrationToRegistry parses
\* out of the string it is passed
WrittenBy(call) == AxisData(ParseCalibration(call.data, call.axisIndex))

\* the two front-ends hold the same three live ranges, and the handler that ran
\* last issued the same store writes in both, in the same order: the same axis,
\* slot and record
SameRangesAndWrites ==
    /\ \A a \in Axes : range[a] = peer.range[a]
    /\ Len(writes) = Len(peer.calls)
    /\ \A i \in 1 .. Len(writes) :
          /\ writes[i].axisIndex = peer.calls[i].axisIndex
          /\ writes[i].slot = RegistryIndex(peer.calls[i].axisIndex)
          /\ ~writes[i].threw
          /\ writes[i].axisData = WrittenBy(peer.calls[i])

SameWhileTicksAgree ==
    peer.same => (currentRaw = peer.currentRaw /\ SameRangesAndWrites)

\* after two samples both took, Set Min and then Set Max on X, both front-ends
\* hold {440, 3790} for X and wrote {440, 2115, 3790, 0, 0}
SameAfterCalibration ==
    /\ peer.same
    /\ lastOp.op = "setAxisMax" /\ lastOp.axis = 0
    /\ range[0] = [min |-> 440, max |-> 3790]
    /\ peer.range[0] = [min |-> 440, max |-> 3790]
    /\ Len(peer.calls) = 1
    /\ writes[1].axisData.mid = 2115
    /\ WrittenBy(peer.calls[1]).mid = 2115

====
